---- MODULE Spec2Model ----
(***************************************************************************)
(* ashred: overwrite a file or raw device with random bytes using          *)
(* overlapped (POSIX AIO) writes.  The model follows src/ashred.c:         *)
(* shred() primes the slot pool and calls shred_from(), whose dispatch     *)
(* loop, completion sweep, stall wait, drain and fsync are one action per  *)
(* step; the kernel completes outstanding writes in any order.             *)
(***************************************************************************)
EXTENDS Integers, Sequences, FiniteSets

\* Bounds of the model: target length, slot count, buffer capacity.
MaxLen == 8
MaxSlots == 2
MaxCap == 4

\* errno values a failing system call may leave behind (EIO, ENOSPC).
Errnos == {5, 28}

VARIABLES
    pc,         \* control position of the single thread
    i,          \* loop index of the for loop being executed
    len,        \* size of the target (total_size / len)
    nbl,        \* slot count (blcnt / nbl)
    buf_size,   \* buffer capacity
    fildes,     \* bl[s].aio_fildes: "none" (before bl_init), "rfd", "wfd"
    nbytes,     \* bl[s].aio_nbytes
    offset,     \* bl[s].aio_offset
    alloc,      \* bl[s].aio_buf is allocated and not freed
    randopen,   \* randfd is open
    off,        \* cursor
    total,      \* running total
    nread,      \* completions confirmed in the current round
    aio,        \* kernel state of slot s's request: "none", "inprogress", "finished"
    ret,        \* {return value of shred_from}, {} before it returns
    status,     \* {return value of shred}, {} before it returns
    errno,      \* the C errno
    disp,       \* history: the writes handed to aio_write, in order
    rep,        \* history: rep[k] is how many times aio_return confirmed disp[k]
    cur,        \* history: cur[s] is the index in disp of the write slot s carries
    carried,    \* history: the unconfirmed writes that were dispatched from slot s
    covered,    \* history: the byte offsets handed to aio_write so far
    dup,        \* history: the byte offsets handed to aio_write more than once
    fresh,      \* history: reads into slot s's buffer since its last dispatch
    errAt,      \* history: Len(disp) when a completion error was observed (-1 before)
    fsyncRes,   \* history: {the value fsync returned}, {} before the call
    flushOut,   \* history: writes not yet confirmed when fsync was called
    failCode,   \* history: errno of the system call that failed (0 if none)
    shortSeen,  \* history: a confirmed write reported fewer bytes than requested
    reported,   \* history: sum of the byte counts aio_return reported for finished writes
    roundDisp,  \* history: writes dispatched in the current round
    roundConf,  \* history: finished writes confirmed in the current round
    waited      \* history: "yes"/"no" once the round's aio_suspend decision is taken

vars == <<pc, i, len, nbl, buf_size, fildes, nbytes, offset, alloc, randopen,
          off, total, nread, aio, ret, status, errno, disp, rep, cur, carried, covered, dup,
          fresh, errAt, fsyncRes, flushOut, failCode, shortSeen, reported,
          roundDisp, roundConf, waited>>

Slots == 0 .. (nbl - 1)

\* The dispatched writes that no aio_return has confirmed yet.
Outstanding == {k \in 1 .. Len(disp) : rep[k] = 0}

Init ==
    /\ pc = "open"
    /\ i = 0
    /\ len \in 0 .. MaxLen
    /\ nbl \in 1 .. MaxSlots
    /\ buf_size \in 1 .. MaxCap
    /\ fildes = [s \in 0 .. (nbl - 1) |-> "none"]
    /\ nbytes = [s \in 0 .. (nbl - 1) |-> 0]
    /\ offset = [s \in 0 .. (nbl - 1) |-> 0]
    /\ alloc = [s \in 0 .. (nbl - 1) |-> FALSE]
    /\ randopen = FALSE
    /\ off = 0
    /\ total = 0
    /\ nread = 0
    /\ aio = [s \in 0 .. (nbl - 1) |-> "none"]
    /\ ret = {}
    /\ status = {}
    /\ errno = 0
    /\ disp = <<>>
    /\ rep = <<>>
    /\ cur = [s \in 0 .. (nbl - 1) |-> 0]
    /\ carried = [s \in 0 .. (nbl - 1) |-> {}]
    /\ covered = {}
    /\ dup = {}
    /\ fresh = [s \in 0 .. (nbl - 1) |-> 0]
    /\ errAt = -1
    /\ fsyncRes = {}
    /\ flushOut = -1
    /\ failCode = 0
    /\ shortSeen = FALSE
    /\ reported = 0
    /\ roundDisp = 0
    /\ roundConf = 0
    /\ waited = "none"

slotVars == <<fildes, nbytes, offset>>
sessVars == <<off, total, nread>>
histVars == <<disp, rep, cur, carried, covered, dup, fresh, errAt, fsyncRes, flushOut>>
confVars == <<shortSeen, reported>>
roundVars == <<roundDisp, roundConf, waited>>
sizeVars == <<len, nbl, buf_size>>

(***************************************************************************)
(* shred(): open the random source, prime every slot, resolve the size.    *)
(***************************************************************************)

\* open("/dev/urandom") and its error return.
OpenRandom ==
    /\ UNCHANGED <<confVars, roundVars>>
    /\ pc = "open"
    /\ \/ /\ randopen' = TRUE
          /\ pc' = "fill"
          /\ UNCHANGED <<status, errno, failCode>>
       \/ \E e \in Errnos :
            /\ errno' = e
            /\ failCode' = e
            /\ status' = {e}
            /\ pc' = "done"
            /\ UNCHANGED randopen
    /\ UNCHANGED <<i, sizeVars, slotVars, alloc, sessVars, aio, ret, histVars>>

\* read(rfd, bl[s].aio_buf, bl[s].aio_nbytes) puts new random bytes in slot
\* s's buffer: one more read since the slot's last dispatch (counted up to 2).
ReadSkipped(f, s) == f
ReadInto(f, s) == [f EXCEPT ![s] = IF @ < 2 THEN @ + 1 ELSE @]

\* One iteration of the priming loop: bl_init and the initial read.
InitialFill ==
    /\ UNCHANGED <<confVars, roundVars>>
    /\ pc = "fill"
    /\ i < nbl
    /\ fildes' = [fildes EXCEPT ![i] = "rfd"]
    /\ nbytes' = [nbytes EXCEPT ![i] = buf_size]
    /\ alloc' = [alloc EXCEPT ![i] = TRUE]
    /\ \/ /\ fresh' = ReadInto(fresh, i)
          /\ i' = i + 1
          /\ pc' = IF i + 1 < nbl THEN "fill" ELSE "get_size"
          /\ UNCHANGED <<status, errno, failCode>>
       \/ \E e \in Errnos :
            /\ errno' = e
            /\ failCode' = e
            /\ status' = {e}
            /\ pc' = "done"
            /\ UNCHANGED <<i, fresh>>
    /\ UNCHANGED <<sizeVars, offset, randopen, sessVars, aio, ret,
                   disp, rep, cur, carried, covered, dup, errAt, fsyncRes, flushOut>>

\* get_size: fstat or ioctl returns -1 on failure and get_size returns that value.
GetSize ==
    /\ UNCHANGED <<confVars, roundVars>>
    /\ pc = "get_size"
    /\ \/ /\ pc' = "while"
          /\ off' = 0
          /\ total' = 0
          /\ UNCHANGED <<status, errno, failCode>>
       \/ \E e \in Errnos :
            /\ errno' = e
            /\ failCode' = e
            /\ status' = {-1}
            /\ pc' = "done"
            /\ UNCHANGED <<off, total>>
    /\ UNCHANGED <<i, sizeVars, slotVars, alloc, randopen, nread, aio, ret, histVars>>

(***************************************************************************)
(* shred_from()                                                            *)
(***************************************************************************)

\* shred_from returns the error sentinel with errno = e, and shred, seeing
\* bytes_written < 0, returns errno.
Fail(e) ==
    /\ ret' = {-1}
    /\ errno' = e
    /\ failCode' = e
    /\ status' = {e}
    /\ pc' = "done"

\* Position after slot j of the dispatch round has been handled.
AfterSlot(j) == IF j + 1 < nbl THEN "for" ELSE "suspend"

\* while (off < len)
WhileTest ==
    /\ UNCHANGED confVars
    /\ roundDisp' = 0
    /\ roundConf' = 0
    /\ waited' = "none"
    /\ pc = "while"
    /\ IF off < len
         THEN /\ nread' = 0
              /\ i' = 0
              /\ pc' = "for"
         ELSE /\ i' = 0
              /\ pc' = "drain"
              /\ UNCHANGED nread
    /\ UNCHANGED <<sizeVars, slotVars, alloc, randopen, off, total, aio,
                   ret, status, errno, histVars, failCode>>

\* The length given to aio_write: aio_nbytes, truncated at the end of the target.
WriteLenNoTrunc(nb, o) == nb
WriteLen(nb, o) == IF nb + o >= len THEN len - o ELSE nb

\* The cursor has reached the target length: leave the for loop.
CursorDoneNever(o) == FALSE
CursorDone(o) == o >= len

\* Slot i holds fresh random data: hand it to aio_write at the cursor.
Dispatch ==
    /\ UNCHANGED <<confVars, roundConf, waited>>
    /\ pc = "for"
    /\ fildes[i] = "rfd"
    /\ LET n == WriteLen(nbytes[i], off) IN
        /\ fildes' = [fildes EXCEPT ![i] = "wfd"]
        /\ offset' = [offset EXCEPT ![i] = off]
        /\ nbytes' = [nbytes EXCEPT ![i] = n]
        /\ \/ /\ aio' = [aio EXCEPT ![i] = "inprogress"]
              /\ disp' = Append(disp, [off |-> off, len |-> n])
              /\ rep' = Append(rep, 0)
              /\ cur' = [cur EXCEPT ![i] = Len(disp) + 1]
              /\ carried' = [carried EXCEPT ![i] = @ \cup {Len(disp) + 1}]
              /\ covered' = covered \cup (off .. (off + n - 1))
              /\ dup' = dup \cup (covered \cap (off .. (off + n - 1)))
              /\ fresh' = [fresh EXCEPT ![i] = 0]
              /\ off' = off + n
              /\ roundDisp' = roundDisp + 1
              /\ IF CursorDone(off + n)
                   THEN pc' = "suspend" /\ UNCHANGED i
                   ELSE pc' = AfterSlot(i) /\ i' = i + 1
              /\ UNCHANGED <<ret, status, errno, failCode>>
           \/ \E e \in Errnos :
                /\ Fail(e)
                /\ UNCHANGED <<i, aio, disp, rep, cur, carried, covered, dup, fresh, off,
                               roundDisp>>
    /\ UNCHANGED <<sizeVars, alloc, randopen, total, nread,
                   errAt, fsyncRes, flushOut>>

\* EINPROGRESS == aio_error(bl + s)
InFlightNever(s) == FALSE
InFlight(s) == aio[s] = "inprogress"

\* What aio_return may report for slot s: an error, or a byte count of 0 up to
\* the requested length (a short write).  For a request that has not finished
\* the value is undefined, which is the same set.
AioReturn(s) == -1 .. nbytes[s]

\* The request is retired by aio_return only if it had finished.
Retire(s) == [aio EXCEPT ![s] = IF aio[s] = "finished" THEN "none" ELSE aio[s]]

\* aio_return confirms the write slot s carries, unless that request is still
\* in flight; a call for a request already retired counts once more.
Confirm(s) ==
    IF cur[s] = 0 \/ aio[s] = "inprogress" THEN rep
    ELSE [rep EXCEPT ![cur[s]] = IF @ < 2 THEN @ + 1 ELSE @]

\* The write confirmed by aio_return is no longer outstanding on slot s.
Uncarry(s) ==
    IF aio[s] # "finished" THEN carried
    ELSE [carried EXCEPT ![s] = @ \ {cur[s]}]

\* History of what aio_return reported for slot s's finished write.
SawShort(s, bcnt) == shortSeen \/ (aio[s] = "finished" /\ bcnt >= 0 /\ bcnt < nbytes[s])
Reported(s, bcnt) == IF aio[s] = "finished" /\ bcnt >= 0 THEN reported + bcnt ELSE reported

\* total += bcnt
AddConfirmedTwice(t, bcnt) == t + bcnt + bcnt
AddConfirmed(t, bcnt) == t + bcnt

\* bcnt < 0
CompletionErrorIgnored(bcnt) == FALSE
CompletionError(bcnt) == bcnt < 0

\* Slot i carries a write: skip it if still in flight, else confirm it.
\* errAt records that aio_return reported a negative count.
CheckCompletion ==
    /\ pc = "for"
    /\ fildes[i] = "wfd"
    /\ UNCHANGED <<roundDisp, waited>>
    /\ IF InFlight(i)
         THEN /\ i' = i + 1
              /\ pc' = AfterSlot(i)
              /\ UNCHANGED <<fildes, total, aio, ret, status, errno, rep, carried, errAt, failCode,
                             confVars, roundConf>>
         ELSE \E bcnt \in AioReturn(i) :
                /\ aio' = Retire(i)
                /\ rep' = Confirm(i)
                /\ carried' = Uncarry(i)
                /\ shortSeen' = SawShort(i, bcnt)
                /\ reported' = Reported(i, bcnt)
                /\ roundConf' = IF aio[i] = "finished" /\ bcnt >= 0
                                  THEN roundConf + 1 ELSE roundConf
                /\ IF CompletionError(bcnt)
                     THEN /\ \E e \in Errnos : Fail(e)
                          /\ errAt' = Len(disp)
                          /\ UNCHANGED <<i, fildes, total>>
                     ELSE /\ total' = AddConfirmed(total, bcnt)
                          /\ fildes' = [fildes EXCEPT ![i] = "rfd"]
                          /\ pc' = "read"
                          /\ errAt' = IF bcnt < 0 THEN Len(disp) ELSE errAt
                          /\ UNCHANGED <<i, ret, status, errno, failCode>>
    /\ UNCHANGED <<sizeVars, nbytes, offset, alloc, randopen, off, nread,
                   disp, cur, covered, dup, fresh, fsyncRes, flushOut>>

\* ++nread
CountReadForgotten(n) == n
CountRead(n) == n + 1

\* The synchronous read that refills slot i after its write was confirmed.
Refill ==
    /\ UNCHANGED <<confVars, roundVars>>
    /\ pc = "read"
    /\ \/ /\ fresh' = ReadInto(fresh, i)
          /\ nread' = CountRead(nread)
          /\ i' = i + 1
          /\ pc' = AfterSlot(i)
          /\ UNCHANGED <<ret, status, errno, failCode>>
       \/ \E e \in Errnos :
            /\ Fail(e)
            /\ UNCHANGED <<i, fresh, nread>>
    /\ UNCHANGED <<sizeVars, slotVars, alloc, randopen, off, total, aio,
                   disp, rep, cur, carried, covered, dup, errAt,
                   fsyncRes, flushOut>>

\* nread == 0
AlwaysWait(n) == TRUE
NothingRead(n) == n = 0

\* End of a round: aio_suspend if the round confirmed nothing.  The call
\* returns once a listed request has finished, or fails.
Suspend ==
    /\ UNCHANGED <<confVars, roundDisp, roundConf>>
    /\ pc = "suspend"
    /\ IF NothingRead(nread)
         THEN /\ waited' = "yes"
              /\ \/ /\ \E s \in Slots : aio[s] = "finished"
                    /\ pc' = "while"
                    /\ UNCHANGED <<ret, status, errno, failCode>>
                 \/ \E e \in Errnos : Fail(e)
         ELSE /\ waited' = "no"
              /\ pc' = "while"
              /\ UNCHANGED <<ret, status, errno, failCode>>
    /\ UNCHANGED <<i, sizeVars, slotVars, alloc, randopen, sessVars, aio,
                   histVars>>

\* aio_suspend is handed all nbl control blocks (get_bl_list_from_array),
\* also those with no request queued.  Whether such a block counts as
\* completed is left to the implementation, so the call may return at once.
SuspendNoWait ==
    /\ pc = "suspend"
    /\ NothingRead(nread)
    /\ \E s \in Slots : aio[s] = "none"
    /\ ~ \E s \in Slots : aio[s] = "finished"
    /\ waited' = "yes"
    /\ pc' = "while"
    /\ UNCHANGED <<i, sizeVars, slotVars, alloc, randopen, sessVars, aio, ret,
                   status, errno, histVars, failCode, confVars, roundDisp, roundConf>>

\* bl[s].aio_fildes != wfd: the drain skips the slot.
DrainSkipsWriters(s) == fildes[s] = "wfd"
DrainSkip(s) == fildes[s] # "wfd"

\* One iteration of the drain loop.
Drain ==
    /\ pc = "drain"
    /\ UNCHANGED roundVars
    /\ IF DrainSkip(i)
         THEN /\ i' = i + 1
              /\ pc' = IF i + 1 < nbl THEN "drain" ELSE "fsync"
              /\ UNCHANGED <<total, aio, ret, status, errno, rep, carried, errAt, failCode,
                             confVars>>
         ELSE /\ ~InFlight(i)
              /\ \E bcnt \in AioReturn(i) :
                   /\ aio' = Retire(i)
                   /\ rep' = Confirm(i)
                   /\ carried' = Uncarry(i)
                   /\ shortSeen' = SawShort(i, bcnt)
                   /\ reported' = Reported(i, bcnt)
                   /\ IF CompletionError(bcnt)
                        THEN /\ \E e \in Errnos : Fail(e)
                             /\ errAt' = Len(disp)
                             /\ UNCHANGED <<i, total>>
                        ELSE /\ total' = AddConfirmed(total, bcnt)
                             /\ i' = i + 1
                             /\ pc' = IF i + 1 < nbl THEN "drain" ELSE "fsync"
                             /\ errAt' = IF bcnt < 0 THEN Len(disp) ELSE errAt
                             /\ UNCHANGED <<ret, status, errno, failCode>>
    /\ UNCHANGED <<sizeVars, slotVars, alloc, randopen, off, nread,
                   disp, cur, covered, dup, fresh, fsyncRes, flushOut>>

\* err != 0 after fsync
FlushFailedPositive(err) == err > 0
FlushFailed(err) == err # 0

\* fsync(wfd); on failure errno is overwritten with fsync's return value.
Fsync ==
    /\ UNCHANGED <<confVars, roundVars>>
    /\ pc = "fsync"
    /\ flushOut' = Cardinality(Outstanding)
    /\ \/ /\ fsyncRes' = {0}
          /\ ret' = IF FlushFailed(0) THEN {-1} ELSE {total}
          /\ pc' = "shred_ret"
          /\ UNCHANGED <<status, errno, failCode>>
       \/ \E e \in Errnos :
            /\ fsyncRes' = {-1}
            /\ failCode' = e
            /\ IF FlushFailed(-1)
                 THEN /\ ret' = {-1}
                      /\ errno' = -1
                      /\ status' = {-1}
                      /\ pc' = "done"
                 ELSE /\ ret' = {total}
                      /\ errno' = e
                      /\ pc' = "shred_ret"
                      /\ UNCHANGED status
    /\ UNCHANGED <<i, sizeVars, slotVars, alloc, randopen, sessVars, aio,
                   disp, rep, cur, carried, covered, dup, fresh, errAt>>

\* Back in shred(): error return, or close, free and return 0.
ShredReturn ==
    /\ UNCHANGED <<confVars, roundVars>>
    /\ pc = "shred_ret"
    /\ IF \E v \in ret : v < 0
         THEN /\ status' = {errno}
              /\ UNCHANGED <<alloc, randopen>>
         ELSE /\ randopen' = FALSE
              /\ alloc' = [s \in Slots |-> FALSE]
              /\ status' = {0}
    /\ pc' = "done"
    /\ UNCHANGED <<i, sizeVars, slotVars, sessVars, aio, ret, errno,
                   histVars, failCode>>

\* The kernel finishes an outstanding write while shred_from is running.  The
\* program only compares aio_error with EINPROGRESS, so the outcome of the
\* write is drawn when aio_return reads it.
Complete ==
    \E s \in Slots :
        /\ aio[s] = "inprogress"
        /\ pc \in {"while", "for", "read", "suspend", "drain"}
        /\ aio' = [aio EXCEPT ![s] = "finished"]
        /\ UNCHANGED <<confVars, roundVars>>
        /\ UNCHANGED <<pc, i, sizeVars, slotVars, alloc, randopen, sessVars, ret,
                       status, errno, histVars, failCode>>

Next ==
    \/ OpenRandom
    \/ InitialFill
    \/ GetSize
    \/ WhileTest
    \/ Dispatch
    \/ CheckCompletion
    \/ Refill
    \/ Suspend
    \/ SuspendNoWait
    \/ Drain
    \/ Fsync
    \/ ShredReturn
    \/ Complete

Spec == Init /\ [][Next]_vars

(***************************************************************************)
(* Properties                                                              *)
(***************************************************************************)

\* shred_from has returned a byte total, not the error sentinel.
Success == ret # {} /\ \A v \in ret : v >= 0

RECURSIVE SumLen(_)
SumLen(seq) == IF seq = <<>> THEN 0 ELSE Head(seq).len + SumLen(Tail(seq))

\* C1: no byte offset belongs to two ranges handed to aio_write (so writes in
\* flight together never overlap), and in a run that returns success the
\* ranges lie inside [0, len) and their lengths sum to exactly len.
C1_RangesPartitionTarget ==
    /\ dup = {}
    /\ Success =>
         /\ SumLen(disp) = len
         /\ covered \subseteq 0 .. (len - 1)

\* A successful run that needed three writes from at least two slots.
C1_Witness == Success /\ Len(disp) >= 3 /\ nbl >= 2 /\ SumLen(disp) = len

\* C2: a run of shred_from that returns success returns exactly len, whatever
\* byte counts (0 up to the requested length) the completed writes report.
C2_TotalEqualsLength == Success => ret = {len}

\* C3: the synchronous read into a slot happens only when the slot has no
\* outstanding write: its last dispatched write was seen finished and was
\* confirmed by aio_return; and a buffer refilled since its last dispatch
\* has no write referencing it.
C3_NoRefillWhileOutstanding ==
    \A s \in Slots :
        ((pc = "read" /\ i = s) \/ fresh[s] >= 1) =>
            /\ aio[s] = "none"
            /\ carried[s] = {}
            /\ cur[s] # 0 => rep[cur[s]] >= 1

\* A slot that carried a write has been refilled.
C3_Witness == \E s \in Slots : fresh[s] = 1 /\ cur[s] # 0 /\ fildes[s] = "rfd"

\* C4: once aio_return reported a completion error, in the main loop or in
\* the drain, shred_from has returned the error sentinel and nothing was
\* dispatched after the error was observed.
C4_CompletionErrorAborts ==
    errAt >= 0 =>
        /\ pc \in {"shred_ret", "done"}
        /\ ret = {-1}
        /\ Len(disp) = errAt

\* The run ended on a completion error after two or more dispatches while
\* another write was still unconfirmed.
C4_Witness == pc = "done" /\ errAt >= 2 /\ Outstanding # {} /\ ret = {-1}

\* C5: if fsync fails, shred_from returns the error sentinel, never the total.
C5_FlushFailureReported == fsyncRes = {-1} => ret = {-1}

\* fsync failed although every dispatched write was confirmed without error.
C5_Witness ==
    fsyncRes = {-1} /\ Len(disp) >= 2 /\ Outstanding = {} /\ errAt = -1 /\ off = len

\* C6: fsync is never called while a dispatched write is unconfirmed, and
\* shred_from returns success only after the cursor reached len, every
\* dispatched write was confirmed and the fsync after that succeeded.
C6_SuccessAfterConfirmAndFlush ==
    /\ fsyncRes # {} => flushOut = 0
    /\ Success =>
         /\ off = len
         /\ Outstanding = {}
         /\ \A s \in Slots : aio[s] = "none"
         /\ fsyncRes = {0}

\* A successful run whose last writes were confirmed in the drain.
C6_Witness == Success /\ Len(disp) >= 2 /\ \E s \in Slots : fildes[s] = "wfd"

\* C7: at most nbl writes are outstanding, at most one per slot, and every
\* dispatched write has a length of 1 up to buf_size and ends within len.
C7_BoundedOutstanding ==
    /\ Cardinality(Outstanding) <= nbl
    /\ \A s \in Slots : Cardinality(carried[s]) <= 1
    /\ \A k \in 1 .. Len(disp) :
         /\ disp[k].len >= 1
         /\ disp[k].len <= buf_size
         /\ disp[k].off + disp[k].len <= len

\* Every slot carries an outstanding write, the last one truncated.
C7_Witness ==
    /\ nbl >= 2
    /\ Cardinality(Outstanding) = nbl
    /\ off = len
    /\ disp[Len(disp)].len < buf_size

\* The dispatch sequence the claim expects: ceil(len / buf_size) ranges of
\* buf_size bytes, the last one holding the remainder.
ExpectedCount == (len + buf_size - 1) \div buf_size
ExpectedRange(k) ==
    [off |-> (k - 1) * buf_size,
     len |-> IF k * buf_size <= len THEN buf_size ELSE len - (k - 1) * buf_size]

\* The ranges dispatched so far are the first ranges of the expected sequence,
\* and all of them once the cursor has reached len.
DispatchSequenceExpected ==
    /\ Len(disp) <= ExpectedCount
    /\ \A k \in 1 .. Len(disp) : disp[k] = ExpectedRange(k)
    /\ off >= len /\ pc \notin {"open", "fill", "get_size"} => Len(disp) = ExpectedCount

\* C8: exactly ceil(len / buf_size) writes are dispatched, all of buf_size
\* bytes except the last (len mod buf_size, or buf_size), none for len = 0,
\* and the confirmed total of a successful run is len (10 for nbl = 2,
\* buf_size = 4, len = 10, with ranges [0,4), [4,8), [8,10)).
C8_BoundaryDispatch ==
    /\ DispatchSequenceExpected
    /\ Success => ret = {len}

\* C9: when shred returns a failure, every slot buffer has been freed and
\* the random source has been closed.
C9_ResourcesReleasedOnError ==
    (pc = "done" /\ status # {0}) =>
        /\ \A s \in Slots : ~alloc[s]
        /\ ~randopen

\* C10: shred returns 0 on success and otherwise the error code of the
\* system call that failed.
C10_StatusIsErrorCode == pc = "done" => status = {failCode}

\* The whole dispatch sequence as a function of len and buf_size alone.
ExpectedDispatch == [k \in 1 .. ExpectedCount |-> ExpectedRange(k)]

\* C11: a successful run in which every write reported its full length
\* dispatched a sequence of ranges and returned a total that are functions of
\* len and buf_size alone, so two such runs that differ only in the order
\* and timing of completions agree on both.
C11_OrderIndependent ==
    (Success /\ ~shortSeen) => (disp = ExpectedDispatch /\ ret = {len})

\* A successful run with full writes in which slot 1 finished first and
\* carried the third range, slot 0 only the first.
C11_Witness ==
    Success /\ ~shortSeen /\ nbl = 2 /\ Len(disp) >= 3 /\ cur[0] = 1 /\ cur[1] = 3

\* The ranges dispatched so far follow one another from offset 0.
Tiles ==
    \A k \in 1 .. Len(disp) :
        disp[k].off = (IF k = 1 THEN 0 ELSE disp[k - 1].off + disp[k - 1].len)

\* C12: the cursor stays within 0 .. len, equals the end of the ranges
\* dispatched so far, which tile [0, cursor) in increasing order, and equals
\* len on a successful return; a step changes it only by dispatching a write
\* at the old cursor, and then by exactly that write's length.
C12_CursorMonotone ==
    /\ [](/\ off >= 0
          /\ off <= len
          /\ Tiles
          /\ off = SumLen(disp)
          /\ Success => off = len)
    /\ [][/\ off' >= off
          /\ off' # off =>
               /\ Len(disp') = Len(disp) + 1
               /\ disp'[Len(disp')].off = off
               /\ off' = off + disp'[Len(disp')].len
          /\ Len(disp') = Len(disp) => off' = off]_vars

\* The drain runs with the cursor at len after three or more dispatches.
C12_Witness == pc = "drain" /\ off = len /\ Len(disp) >= 3 /\ Outstanding # {}

\* C13: the running total is the sum of the byte counts reported by the
\* writes confirmed so far, no write is confirmed twice, and a successful
\* run confirmed every dispatched write once and returns that sum.
C13_TotalIsConfirmedSum ==
    /\ total = reported
    /\ \A k \in 1 .. Len(disp) : rep[k] <= 1
    /\ Success =>
         /\ \A k \in 1 .. Len(disp) : rep[k] = 1
         /\ ret = {reported}

\* A successful run with a short write, confirmed partly in the sweep and
\* partly in the drain.
C13_Witness ==
    /\ Success
    /\ shortSeen
    /\ Len(disp) >= 3
    /\ \E s \in Slots : fildes[s] = "wfd"
    /\ \E s \in Slots : fildes[s] = "rfd" /\ cur[s] # 0

\* C14: at the end of a round aio_suspend is called when, and only when, the
\* round dispatched no write and confirmed no completion.
C14_WaitOnlyWhenIdle ==
    waited # "none" => ((waited = "yes") <=> (roundDisp = 0 /\ roundConf = 0))

\* C14 (amended): at the end of a round aio_suspend is called when, and only
\* when, the round confirmed no completion, whether or not it dispatched.
C14_WaitIffNothingConfirmed ==
    waited # "none" => ((waited = "yes") <=> (roundConf = 0))

\* aio_suspend was called at the end of a round that dispatched writes.
C14_Witness == waited = "yes" /\ roundDisp >= 1 /\ roundConf = 0 /\ pc = "while"

\* The role of slot s: ReadingRandom, WritingTarget with its write pending,
\* or WritingTarget with its last write confirmed (done).
Role(s) ==
    IF fildes[s] = "rfd" THEN "ReadingRandom"
    ELSE IF fildes[s] = "wfd" THEN (IF carried[s] # {} THEN "pending" ELSE "done")
    ELSE "none"

\* One slot's move in a step.
SlotMove(s) ==
    LET a == Role(s)
        b == Role(s)'
    IN  \/ a = b
        \/ a = "none" /\ b = "ReadingRandom"
        \/ a = "ReadingRandom" /\ b = "pending" /\ Len(disp') = Len(disp) + 1
        \/ a = "pending" /\ b = "ReadingRandom" /\ off < len /\ pc' = "read" /\ i' = s
        \/ a = "pending" /\ b = "done" /\ pc = "drain"

\* C15: in a step that does not abort the run a slot moves only
\* ReadingRandom -> pending by a dispatch, pending -> ReadingRandom by a
\* confirmed completion that is followed by the refill, and only while
\* cursor < len, or pending -> done by a confirmation in the drain; a done
\* slot stays done, and once the cursor has reached len no slot is refilled
\* or dispatched.
C15_SlotStateMachine ==
    [][failCode' = 0 =>
         /\ \A s \in Slots : SlotMove(s)
         /\ off >= len /\ pc \notin {"open", "fill", "get_size"} =>
               (fresh' = fresh /\ disp' = disp)]_vars

\* At the flush one slot is done, another was refilled and never used again.
C15_Witness ==
    /\ pc = "fsync"
    /\ \E s, u \in Slots :
         Role(s) = "done" /\ Role(u) = "ReadingRandom" /\ cur[u] # 0 /\ fresh[u] = 1

ProgramStep ==
    \/ OpenRandom
    \/ InitialFill
    \/ GetSize
    \/ WhileTest
    \/ Dispatch
    \/ CheckCompletion
    \/ Refill
    \/ Suspend
    \/ Drain
    \/ Fsync
    \/ ShredReturn

\* The single thread keeps executing: a call that can return without an
\* error does return (read, aio_suspend once a request has finished, the
\* drain's busy wait once the slot's write is over, fsync), and the kernel
\* finishes every queued write.  No call is required to fail, and aio_suspend
\* is not required to return while every listed request is still unfinished.
LiveSpec ==
    /\ Spec
    /\ WF_vars(ProgramStep /\ failCode' = 0)
    /\ WF_vars(Complete)

\* shred_from has returned: the total (shred goes on) or the error sentinel.
Returned == pc \in {"shred_ret", "done"}

\* C17: when writes complete and calls return, shred_from eventually returns.
C17_Termination == <>Returned

\* shred_from returned the total after running more rounds than one, having
\* dispatched more writes than there are slots.
C17_Witness == pc = "shred_ret" /\ fsyncRes = {0} /\ Len(disp) > nbl

\* Some slot's buffer has been handed back to the allocator.
SomeBufferFreed == \E s \in Slots : fildes[s] # "none" /\ ~alloc[s]

\* C18: buffers are freed and the random source is closed only when no
\* dispatched write is unconfirmed or still running and fsync has succeeded;
\* after a successful run every buffer is freed and the source is closed.
C18_FreeOnlyAfterConfirmAndFlush ==
    /\ SomeBufferFreed =>
         /\ Outstanding = {}
         /\ \A s \in Slots : carried[s] = {} /\ aio[s] # "inprogress"
         /\ fsyncRes = {0}
         /\ flushOut = 0
    /\ (pc = "done" /\ status = {0}) =>
         /\ \A s \in Slots : ~alloc[s]
         /\ ~randopen
         /\ Outstanding = {}
         /\ fsyncRes = {0}

\* A successful run that reused its slots, with everything released.
C18_Witness ==
    /\ pc = "done" /\ status = {0}
    /\ nbl >= 2 /\ Len(disp) > nbl
    /\ SomeBufferFreed /\ ~randopen

\* shred_from is about to call aio_suspend (the round confirmed nothing).
EntersWait == pc = "suspend" /\ NothingRead(nread)

\* C19: whenever aio_suspend is entered some slot carries a write that was
\* dispatched and has not been through aio_return, also in the round that
\* stops the slot scan early; an idle control block is in the list only then.
C19_WaitHasOutstandingWrite ==
    EntersWait =>
        /\ Outstanding # {}
        /\ \E s \in Slots :
             /\ fildes[s] = "wfd"
             /\ carried[s] # {}
             /\ aio[s] \in {"inprogress", "finished"}
        /\ (\E s \in Slots : aio[s] = "none") => off >= len

\* aio_suspend entered in the round where the cursor reached len and the
\* scan stopped before the last slot, which is idle.
C19_Witness ==
    /\ EntersWait
    /\ off = len
    /\ i < nbl - 1
    /\ \E s \in Slots : aio[s] = "none" /\ fildes[s] = "rfd"

====
